---- MODULE Spec2Model ----
(***************************************************************************)
(* A model of the behaviour of the rust_exercises snippets: the            *)
(* LimitTracker of chapter 15, closures::run of chapter 13 (the inventory  *)
(* giveaway and the spawned thread), the iterator snippets of chapter 13,  *)
(* the file opening of chapter 9, the Guess types of chapters 9 and 11 and *)
(* the Rectangle::can_hold methods of chapters 5 and 11.                   *)
(*                                                                         *)
(* Each snippet is an independent program, so each has its own             *)
(* specification (SpecTracker, SpecClosures, ...) over its own variables;  *)
(* the variables of the other snippets stay at their initial value.        *)
(***************************************************************************)
EXTENDS Integers, Sequences, FiniteSets, TLC

VARIABLES
    \* chapter_15/src/ref_cell.rs: LimitTracker and the MockMessenger
    max, value, sent_messages, set_calls,
    \* chapter_13/src/closures.rs: run()
    pc, shirts, user_pref1, user_pref2, giveaway1, giveaway2,
    list2, list3, threads, joined, list, out,
    thread_acc, main_live_acc, main_acc,
    \* chapter_13/src/iterators.rs: iterator_sum
    v1, v1_iter, total, sum_status, visited, overflow_checks,
    \* chapter_9/src/recoverable_with_result.rs: _run and the file system
    fpc, hello_txt, permitted, dir_writable, env_steps,
    greeting_file_result, create_result, syscalls, fs_writes, panic_msg,
    \* chapter_11/src/lib.rs: Guess; chapter_9/src/when_to_panic.rs: _Guess
    guesses11, guesses9, last_call, guess_panic, got_value,
    \* chapter_11/src/lib.rs and chapter_5/src/method_syntax.rs: Rectangle
    rect_self, rect_other, holds11, holds11_rev, holds5,
    \* chapter_11/src/lib.rs: add_two and greeting
    add_call, lib_checks, greet_call,
    \* chapter_13/src/iterators.rs: iterator_demonstration (with v1, v1_iter)
    returned,
    \* chapter_13/src/iterators.rs: shoes_in_size
    shoes, shoe_size, shoes_iter, collected, in_my_size,
    \* chapter_15/src/drop_trait.rs: run()
    dpc, owned, drop_out, dropped, data_c, data_d, data_e

trackerVars == <<max, value, sent_messages, set_calls>>
closuresVars == <<pc, shirts, user_pref1, user_pref2, giveaway1, giveaway2,
                  list2, list3, threads, joined, list, out,
                  thread_acc, main_live_acc, main_acc>>
iterVars == <<v1, v1_iter, total, sum_status, visited, overflow_checks>>
fileVars == <<fpc, hello_txt, permitted, dir_writable, env_steps,
              greeting_file_result, create_result, syscalls, fs_writes,
              panic_msg>>
guessVars == <<guesses11, guesses9, last_call, guess_panic, got_value>>
rectVars == <<rect_self, rect_other, holds11, holds11_rev, holds5>>
libVars == <<add_call, lib_checks, greet_call>>
demoVars == <<returned>>
shoesVars == <<shoes, shoe_size, shoes_iter, collected, in_my_size>>
dropVars == <<dpc, owned, drop_out, dropped, data_c, data_d, data_e>>
vars == <<trackerVars, closuresVars, iterVars, fileVars, guessVars, rectVars,
         libVars,
         demoVars,
         shoesVars,
         dropVars>>

\* the variables of the other snippets, which a snippet's steps leave alone
notTracker == <<closuresVars, iterVars, fileVars, guessVars, rectVars,
    libVars,
    demoVars,
    shoesVars,
    dropVars>>
notClosures == <<trackerVars, iterVars, fileVars, guessVars, rectVars,
    libVars,
    demoVars,
    shoesVars,
    dropVars>>
notIter == <<trackerVars, closuresVars, fileVars, guessVars, rectVars,
    libVars,
    demoVars,
    shoesVars,
    dropVars>>
notFile == <<trackerVars, closuresVars, iterVars, guessVars, rectVars,
    libVars,
    demoVars,
    shoesVars,
    dropVars>>
notGuess == <<trackerVars, closuresVars, iterVars, fileVars, rectVars,
    libVars,
    demoVars,
    shoesVars,
    dropVars>>
notRect == <<trackerVars, closuresVars, iterVars, fileVars, guessVars,
    libVars,
    demoVars,
    shoesVars,
    dropVars>>
notLib ==
    <<trackerVars, closuresVars, iterVars, fileVars, guessVars, rectVars,
    demoVars,
    shoesVars,
    dropVars>>
\* iterator_demonstration uses v1 and v1_iter of iterVars
notIterDemo ==
    <<trackerVars, closuresVars, fileVars, guessVars, rectVars, libVars,
    shoesVars,
    dropVars>>
notShoes ==
    <<trackerVars, closuresVars, iterVars, fileVars, guessVars, rectVars, libVars, demoVars,
    dropVars>>
notDrop ==
    <<trackerVars, closuresVars, iterVars, fileVars, guessVars, rectVars, libVars, demoVars, shoesVars>>

\* Option<T>::None; Some(x) is modelled as <<x>>
None == <<>>
Some(x) == <<x>>

(***************************************************************************)
(* chapter_15/src/ref_cell.rs                                              *)
(***************************************************************************)

\* largest max and value passed to the tracker, and number of set_value calls
MaxQuota == 8
MaxSetCalls == 2

\* the max and the value of tests::it_sends_an_over_75_percent_warning_message
TestMax == 100
TestValue == 80

MsgError == "Error: You are over your quota!"
MsgUrgent == "Urgent warning: You've used up over 90% of your quota!"
MsgWarning == "Warning: You've used up over 75% of your quota!"

\* percentage_of_max >= num/den, where percentage_of_max is
\* self.value as f64 / self.max as f64.  For max > 0 the f64 quotient is
\* compared exactly as the rational v/m is (the operands modelled here are far
\* below 2^51, where rounding could first merge a quotient with the literal).
\* For max = 0 the quotient is +inf for v > 0, which is >= every literal, and
\* NaN for v = 0, for which every comparison is false.
PercentageAtLeast(v, m, num, den) ==
    IF m = 0 THEN v > 0 ELSE den * v >= num * m

\* MockMessenger::send: push the message on sent_messages
send(msgs, msg) == Append(msgs, msg)

\* faulty variant: the 75% and 90% thresholds exchanged
SetValueSendsMutant(msgs, v, m) ==
    IF PercentageAtLeast(v, m, 1, 1) THEN send(msgs, MsgError)
    ELSE IF PercentageAtLeast(v, m, 3, 4) THEN send(msgs, MsgUrgent)
    ELSE IF PercentageAtLeast(v, m, 9, 10) THEN send(msgs, MsgWarning)
    ELSE msgs

\* the messages the messenger holds after LimitTracker::set_value(v)
SetValueSends(msgs, v, m) ==
    IF PercentageAtLeast(v, m, 1, 1) THEN send(msgs, MsgError)
    ELSE IF PercentageAtLeast(v, m, 9, 10) THEN send(msgs, MsgUrgent)
    ELSE IF PercentageAtLeast(v, m, 3, 4) THEN send(msgs, MsgWarning)
    ELSE msgs

\* MockMessenger::new() and LimitTracker::new(&mock_messenger, m)
InitTracker ==
    /\ max \in (0..MaxQuota) \cup {TestMax}
    /\ value = 0
    /\ sent_messages = <<>>
    /\ set_calls = 0

IdleTracker ==
    /\ max = 0
    /\ value = 0
    /\ sent_messages = <<>>
    /\ set_calls = 0

\* LimitTracker::set_value(v)
set_value(v) ==
    /\ set_calls < MaxSetCalls
    /\ value' = v
    /\ sent_messages' = SetValueSends(sent_messages, v, max)
    /\ set_calls' = set_calls + 1
    /\ UNCHANGED max
    /\ UNCHANGED notTracker

NextTracker ==
    \E v \in (0..(MaxQuota + 2)) \cup {TestValue} : set_value(v)

(***************************************************************************)
(* chapter_13/src/closures.rs                                              *)
(***************************************************************************)

\* longest inventory drawn for the store
MaxShirts == 3

ShirtColor == {"Red", "Blue"}

Inventories == UNION {[1..n -> ShirtColor] : n \in 0..MaxShirts}

\* the number of shirts of colour c, counted as the for loop of most_stocked
\* does: one pass over the shirts, adding 1 for each match
RECURSIVE CountColor(_, _)
CountColor(s, c) ==
    IF s = <<>> THEN 0
    ELSE (IF Head(s) = c THEN 1 ELSE 0) + CountColor(Tail(s), c)

\* faulty variant: a tie counted as more Red shirts
most_stocked_mutant(s) ==
    IF CountColor(s, "Red") >= CountColor(s, "Blue") THEN "Red" ELSE "Blue"

\* Inventory::most_stocked
most_stocked(s) ==
    IF CountColor(s, "Red") > CountColor(s, "Blue") THEN "Red" ELSE "Blue"

\* Option::unwrap_or_else(f): Some(x) => x, None => f()
\* Inventory::giveaway: user_preference.unwrap_or_else(|| self.most_stocked())
giveaway(s, user_preference) ==
    IF user_preference # None THEN user_preference[1] ELSE most_stocked(s)

\* the value left in a variable whose content was moved out of it
Moved == "moved"

\* a line of standard output: the literal text and the value formatted after it
Line(text, val) == <<text, val>>

BeforeDefiningLine == Line("Before defining the closure: ", <<1, 2, 3>>)
AfterCallingLine == Line("after calling closure: ", <<1, 2, 3, 7>>)
FromThreadLine == Line("from thread: ", <<1, 2, 3>>)

Rect(w, h) == [width |-> w, height |-> h]

\* the array of line 230
RectList == <<Rect(10, 1), Rect(3, 5), Rect(7, 12)>>

\* slice::sort_by_key(|r| r.width): a stable sort, ascending by the key
RECURSIVE InsertByWidth(_, _)
InsertByWidth(sorted, r) ==
    IF sorted = <<>> THEN <<r>>
    ELSE IF sorted[Len(sorted)].width <= r.width THEN Append(sorted, r)
    ELSE Append(InsertByWidth(SubSeq(sorted, 1, Len(sorted) - 1), r),
                sorted[Len(sorted)])

RECURSIVE sort_by_key(_)
sort_by_key(s) ==
    IF s = <<>> THEN <<>>
    ELSE InsertByWidth(sort_by_key(SubSeq(s, 1, Len(s) - 1)), s[Len(s)])

\* a `move` closure takes ownership of the captured vector: the closure's
\* environment holds it and the variable of run() is left moved-from
\* faulty variant: the closure copies list3 and run() keeps it
MoveCaptureMutant(l) == [env |-> l, left |-> l]

MoveCapture(l) == [env |-> l, left |-> Moved]

\* JoinHandle::join returns once the thread's closure has returned
\* faulty variant: join returns without waiting for the thread
JoinReadyMutant(t) == TRUE

JoinReady(t) == t.state = "finished"

\* some spawned thread has not finished its closure
ThreadLive == \E i \in DOMAIN threads : threads[i].state # "finished"

\* main's access to the names in `names`, recorded once a thread was spawned
MainAccess(names) ==
    /\ main_acc' = IF threads # <<>> THEN main_acc \cup names ELSE main_acc
    /\ main_live_acc' = IF ThreadLive THEN main_live_acc \cup names
                        ELSE main_live_acc

InitClosures ==
    /\ pc = "giveaway1"
    /\ shirts \in Inventories
    /\ user_pref1 \in {None} \cup {Some(c) : c \in ShirtColor}
    /\ user_pref2 \in {None} \cup {Some(c) : c \in ShirtColor}
    /\ giveaway1 = None
    /\ giveaway2 = None
    /\ list2 = <<>>
    /\ list3 = <<>>
    /\ threads = <<>>
    /\ joined = 0
    /\ list = <<>>
    /\ out = <<>>
    /\ thread_acc = {}
    /\ main_live_acc = {}
    /\ main_acc = {}

IdleClosures ==
    /\ pc = "idle"
    /\ shirts = <<>>
    /\ user_pref1 = None
    /\ user_pref2 = None
    /\ giveaway1 = None
    /\ giveaway2 = None
    /\ list2 = <<>>
    /\ list3 = <<>>
    /\ threads = <<>>
    /\ joined = 0
    /\ list = <<>>
    /\ out = <<>>
    /\ thread_acc = {}
    /\ main_live_acc = {}
    /\ main_acc = {}

\* lines 74-79
Giveaway1 ==
    /\ pc = "giveaway1"
    /\ giveaway1' = Some(giveaway(shirts, user_pref1))
    /\ out' = Append(out, Line("The user with preference gets ",
                               <<user_pref1, giveaway(shirts, user_pref1)>>))
    /\ pc' = "giveaway2"
    /\ MainAccess({"store", "user_pref1", "giveaway1", "stdout"})
    /\ UNCHANGED <<shirts, user_pref1, user_pref2, giveaway2, list2, list3,
                   threads, joined, list, thread_acc>>
    /\ UNCHANGED notClosures

\* lines 81-86
Giveaway2 ==
    /\ pc = "giveaway2"
    /\ giveaway2' = Some(giveaway(shirts, user_pref2))
    /\ out' = Append(out, Line("The user with preference gets ",
                               <<user_pref2, giveaway(shirts, user_pref2)>>))
    /\ pc' = "only_borrows"
    /\ MainAccess({"store", "user_pref2", "giveaway2", "stdout"})
    /\ UNCHANGED <<shirts, user_pref1, user_pref2, giveaway1, list2, list3,
                   threads, joined, list, thread_acc>>
    /\ UNCHANGED notClosures

\* lines 126-134: the closure that borrows list immutably
OnlyBorrows ==
    /\ pc = "only_borrows"
    /\ out' = out \o <<Line("Before defining closure: ", <<1, 2, 3>>),
                       Line("Before calling closure: ", <<1, 2, 3>>),
                       Line("from closure: ", <<1, 2, 3>>),
                       Line("After calling closure: ", <<1, 2, 3>>),
                       Line("", <<>>)>>
    /\ pc' = "define_list2"
    /\ MainAccess({"list", "only_borrows", "stdout"})
    /\ UNCHANGED <<shirts, user_pref1, user_pref2, giveaway1, giveaway2,
                   list2, list3, threads, joined, list, thread_acc>>
    /\ UNCHANGED notClosures

\* lines 139-140
DefineList2 ==
    /\ pc = "define_list2"
    /\ list2' = <<1, 2, 3>>
    /\ out' = Append(out, Line("Before defining the closure: ", <<1, 2, 3>>))
    /\ pc' = "borrows_mutably"
    /\ MainAccess({"list2", "stdout"})
    /\ UNCHANGED <<shirts, user_pref1, user_pref2, giveaway1, giveaway2,
                   list3, threads, joined, list, thread_acc>>
    /\ UNCHANGED notClosures

\* lines 142-149: the closure that borrows list2 mutably pushes 7
BorrowsMutably ==
    /\ pc = "borrows_mutably"
    /\ list2' = Append(list2, 7)
    /\ out' = out \o <<Line("after calling closure: ", Append(list2, 7)),
                       Line("", <<>>)>>
    /\ pc' = "define_list3"
    /\ MainAccess({"list2", "borrows_mutably", "stdout"})
    /\ UNCHANGED <<shirts, user_pref1, user_pref2, giveaway1, giveaway2,
                   list3, threads, joined, list, thread_acc>>
    /\ UNCHANGED notClosures

\* lines 158-159
DefineList3 ==
    /\ pc = "define_list3"
    /\ list3' = <<1, 2, 3>>
    /\ out' = Append(out, Line("Before defining the closure: ", <<1, 2, 3>>))
    /\ pc' = "spawn"
    /\ MainAccess({"list3", "stdout"})
    /\ UNCHANGED <<shirts, user_pref1, user_pref2, giveaway1, giveaway2,
                   list2, threads, joined, list, thread_acc>>
    /\ UNCHANGED notClosures

\* line 161: thread::spawn(move || ...)
Spawn ==
    /\ pc = "spawn"
    /\ threads' = Append(threads, [state |-> "ready",
                                   env |-> MoveCapture(list3).env])
    /\ list3' = MoveCapture(list3).left
    /\ pc' = "join"
    /\ UNCHANGED <<shirts, user_pref1, user_pref2, giveaway1, giveaway2,
                   list2, joined, list, out, thread_acc, main_live_acc,
                   main_acc>>
    /\ UNCHANGED notClosures

\* line 161, the closure run by the spawned thread:
\* println!("from thread: {:?}", list3)
ThreadRun(i) ==
    /\ threads[i].state = "ready"
    /\ out' = Append(out, Line("from thread: ", threads[i].env))
    /\ threads' = [threads EXCEPT ![i].state = "finished"]
    /\ thread_acc' = thread_acc \cup {"list3", "stdout"}
    /\ UNCHANGED <<pc, shirts, user_pref1, user_pref2, giveaway1, giveaway2,
                   list2, list3, joined, list, main_live_acc, main_acc>>
    /\ UNCHANGED notClosures

\* lines 162-163: .join().unwrap()
Join ==
    /\ pc = "join"
    /\ JoinReady(threads[Len(threads)])
    /\ joined' = joined + 1
    /\ pc' = "sort"
    /\ MainAccess({"handle"})
    /\ UNCHANGED <<shirts, user_pref1, user_pref2, giveaway1, giveaway2,
                   list2, list3, threads, list, out, thread_acc>>
    /\ UNCHANGED notClosures

\* lines 230-236
SortByKey ==
    /\ pc = "sort"
    /\ list' = sort_by_key(RectList)
    /\ pc' = "print_sorted"
    /\ MainAccess({"list"})
    /\ UNCHANGED <<shirts, user_pref1, user_pref2, giveaway1, giveaway2,
                   list2, list3, threads, joined, out, thread_acc>>
    /\ UNCHANGED notClosures

\* line 237
PrintSorted ==
    /\ pc = "print_sorted"
    /\ out' = Append(out, Line("", list))
    /\ pc' = "done"
    /\ MainAccess({"list", "stdout"})
    /\ UNCHANGED <<shirts, user_pref1, user_pref2, giveaway1, giveaway2,
                   list2, list3, threads, joined, list, thread_acc>>
    /\ UNCHANGED notClosures

NextClosures ==
    \/ Giveaway1
    \/ Giveaway2
    \/ OnlyBorrows
    \/ DefineList2
    \/ BorrowsMutably
    \/ DefineList3
    \/ Spawn
    \/ \E i \in DOMAIN threads : ThreadRun(i)
    \/ Join
    \/ SortByKey
    \/ PrintSorted

(***************************************************************************)
(* chapter_13/src/iterators.rs: iterator_sum                               *)
(***************************************************************************)

\* longest vector summed
MaxLen == 3

\* i32::MAX and i32::MIN
I32Max == 2147483647
I32Min == (-I32Max) - 1

\* the elements the vectors are drawn from: those of the test, a negative
\* one, and the ends of the i32 range
Elems == {-1, 1, 2, 3, I32Max, I32Min}

Vectors == UNION {[1..n -> Elems] : n \in 0..MaxLen}

\* a + b leaves the i32 range (written so that no intermediate value does)
AddOverflows(a, b) ==
    IF b >= 0 THEN a > I32Max - b ELSE a < I32Min - b

\* a.wrapping_add(b): a + b modulo 2^32, in the i32 range
WrappingAdd(a, b) ==
    IF ~AddOverflows(a, b) THEN a + b
    ELSE IF b >= 0 THEN ((a - I32Max) - 1) + ((b - I32Max) - 1)
    ELSE ((a + I32Max) + 1) + ((b + I32Max) + 1)

\* test iterator_sum, line 153-154: v1 and v1.iter(), nothing consumed yet;
\* the build either checks arithmetic overflow (debug, as `cargo test` builds)
\* or does not (release)
InitIter ==
    /\ v1 \in Vectors
    /\ v1_iter = 0
    /\ total = 0
    /\ sum_status = "iterating"
    /\ visited = <<>>
    /\ overflow_checks \in BOOLEAN

IdleIter ==
    /\ v1 = <<>>
    /\ v1_iter = 0
    /\ total = 0
    /\ sum_status = "idle"
    /\ visited = <<>>
    /\ overflow_checks = FALSE

\* faulty variant: the elements taken from the back
next_back(v, pos) == IF pos < Len(v) THEN Some(v[Len(v) - pos]) ELSE None

\* Iterator::next on the slice iterator: the element at the position, if any
next(v, pos) == IF pos < Len(v) THEN Some(v[pos + 1]) ELSE None

\* acc + x as sum()'s fold computes it: Some(the new accumulator), or None
\* where the addition panics ("attempt to add with overflow")
\* faulty variant: the accumulator added to itself
AccumulateMutant(acc, x, checks) ==
    IF AddOverflows(acc, x) /\ checks THEN None
    ELSE Some(WrappingAdd(acc, acc))

Accumulate(acc, x, checks) ==
    IF AddOverflows(acc, x) /\ checks THEN None
    ELSE Some(WrappingAdd(acc, x))

\* line 156, one turn of the fold inside sum(): take the next element and add
\* it to the accumulator
SumStep ==
    /\ sum_status = "iterating"
    /\ next(v1, v1_iter) # None
    /\ LET x == next(v1, v1_iter)[1]
           acc == Accumulate(total, x, overflow_checks)
       IN  /\ v1_iter' = v1_iter + 1
           /\ visited' = Append(visited, v1_iter + 1)
           /\ IF acc = None
              THEN sum_status' = "panicked" /\ UNCHANGED total
              ELSE total' = acc[1] /\ UNCHANGED sum_status
    /\ UNCHANGED <<v1, overflow_checks>>
    /\ UNCHANGED notIter

\* line 156: next() returns None and sum() returns the accumulator
SumEnd ==
    /\ sum_status = "iterating"
    /\ next(v1, v1_iter) = None
    /\ sum_status' = "done"
    /\ UNCHANGED <<v1, v1_iter, total, visited, overflow_checks>>
    /\ UNCHANGED notIter

NextIter ==
    \/ SumStep
    \/ SumEnd

(***************************************************************************)
(* chapter_9/src/recoverable_with_result.rs: _run, lines 34-48             *)
(***************************************************************************)

\* the changes other processes make to hello.txt while _run runs
MaxEnvSteps == 1

\* the states of hello.txt: no such file, a file with content, an empty file
FileStates == {"absent", "data", "empty"}

Ok(x) == [ok |-> TRUE, val |-> x]
Err(kind) == [ok |-> FALSE, val |-> kind]

\* File::open("hello.txt"): opens an existing file for reading
FileOpen(file, perm) ==
    IF file = "absent" THEN Err("NotFound")
    ELSE IF ~perm THEN Err("PermissionDenied")
    ELSE Ok("file")

\* File::create("hello.txt"): creates the file, or truncates an existing one
FileCreate(file, perm, dirw) ==
    IF file = "absent"
    THEN (IF dirw THEN Ok("file") ELSE Err("PermissionDenied"))
    ELSE (IF perm THEN Ok("file") ELSE Err("PermissionDenied"))

\* the arm the match of lines 36-47 takes for the result of the open
\* faulty variant: every open error treated as NotFound
MatchArmMutant(result) ==
    IF result.ok THEN "use"
    ELSE "create"

MatchArm(result) ==
    IF result.ok THEN "use"
    ELSE IF result.val = "NotFound" THEN "create"
    ELSE "panic"

InitFile ==
    /\ fpc = "open"
    /\ hello_txt \in FileStates
    /\ permitted \in BOOLEAN
    /\ dir_writable \in BOOLEAN
    /\ env_steps = 0
    /\ greeting_file_result = None
    /\ create_result = None
    /\ syscalls = <<>>
    /\ fs_writes = <<>>
    /\ panic_msg = None

IdleFile ==
    /\ fpc = "idle"
    /\ hello_txt = "absent"
    /\ permitted = FALSE
    /\ dir_writable = FALSE
    /\ env_steps = 0
    /\ greeting_file_result = None
    /\ create_result = None
    /\ syscalls = <<>>
    /\ fs_writes = <<>>
    /\ panic_msg = None

\* another process creates, rewrites or removes hello.txt
OtherProcess(f) ==
    /\ fpc \in {"open", "match", "create"}
    /\ env_steps < MaxEnvSteps
    /\ f # hello_txt
    /\ hello_txt' = f
    /\ env_steps' = env_steps + 1
    /\ UNCHANGED <<fpc, permitted, dir_writable, greeting_file_result,
                   create_result, syscalls, fs_writes, panic_msg>>
    /\ UNCHANGED notFile

\* line 34
Open ==
    /\ fpc = "open"
    /\ greeting_file_result' = Some(FileOpen(hello_txt, permitted))
    /\ syscalls' = Append(syscalls, "open")
    /\ fpc' = "match"
    /\ UNCHANGED <<hello_txt, permitted, dir_writable, env_steps,
                   create_result, fs_writes, panic_msg>>
    /\ UNCHANGED notFile

\* lines 36-37: Ok(file) => file
MatchOk ==
    /\ fpc = "match"
    /\ MatchArm(greeting_file_result[1]) = "use"
    /\ fpc' = "print"
    /\ UNCHANGED <<hello_txt, permitted, dir_writable, env_steps,
                   greeting_file_result, create_result, syscalls, fs_writes,
                   panic_msg>>
    /\ UNCHANGED notFile

\* lines 38-39: Err(error), error.kind() is ErrorKind::NotFound
MatchNotFound ==
    /\ fpc = "match"
    /\ MatchArm(greeting_file_result[1]) = "create"
    /\ fpc' = "create"
    /\ UNCHANGED <<hello_txt, permitted, dir_writable, env_steps,
                   greeting_file_result, create_result, syscalls, fs_writes,
                   panic_msg>>
    /\ UNCHANGED notFile

\* lines 43-45: any other error kind
MatchOtherError ==
    /\ fpc = "match"
    /\ MatchArm(greeting_file_result[1]) = "panic"
    /\ panic_msg' = Some(<<"Problem opening the file: ",
                           greeting_file_result[1].val>>)
    /\ fpc' = "panicked"
    /\ UNCHANGED <<hello_txt, permitted, dir_writable, env_steps,
                   greeting_file_result, create_result, syscalls, fs_writes>>
    /\ UNCHANGED notFile

\* lines 39-42: File::create and the match on its result
Create ==
    /\ fpc = "create"
    /\ LET r == FileCreate(hello_txt, permitted, dir_writable)
       IN  /\ create_result' = Some(r)
           /\ syscalls' = Append(syscalls, "create")
           /\ IF r.ok
              THEN /\ hello_txt' = "empty"
                   /\ fs_writes' = Append(fs_writes,
                          IF hello_txt = "absent" THEN "created"
                          ELSE "truncated")
                   /\ fpc' = "print"
                   /\ UNCHANGED panic_msg
              ELSE /\ panic_msg' = Some(<<"Problem creating the file: ", r.val>>)
                   /\ fpc' = "panicked"
                   /\ UNCHANGED <<hello_txt, fs_writes>>
    /\ UNCHANGED <<permitted, dir_writable, env_steps, greeting_file_result>>
    /\ UNCHANGED notFile

\* line 48
PrintFile ==
    /\ fpc = "print"
    /\ fpc' = "done"
    /\ UNCHANGED <<hello_txt, permitted, dir_writable, env_steps,
                   greeting_file_result, create_result, syscalls, fs_writes,
                   panic_msg>>
    /\ UNCHANGED notFile

NextFile ==
    \/ \E f \in FileStates : OtherProcess(f)
    \/ Open
    \/ MatchOk
    \/ MatchNotFound
    \/ MatchOtherError
    \/ Create
    \/ PrintFile

(***************************************************************************)
(* chapter_11/src/lib.rs: Guess; chapter_9/src/when_to_panic.rs: _Guess    *)
(***************************************************************************)

\* the instances of each Guess type that are alive at once
MaxGuesses == 1

\* the arguments passed to the constructors
GuessArgs == {I32Min, -1, 0, 1, 2, 50, 99, 100, 101, 200, I32Max}

\* a string is the sequence of its characters
Digit(d) == <<"0", "1", "2", "3", "4", "5", "6", "7", "8", "9">>[d + 1]

\* the decimal digits of n >= 0
RECURSIVE DigitsOf(_)
DigitsOf(n) ==
    IF n < 10 THEN <<Digit(n)>> ELSE Append(DigitsOf(n \div 10), Digit(n % 10))

\* the decimal digits of the magnitude of n <= 0, computed on the negative
\* side, where the magnitude of i32::MIN is no i32
RECURSIVE DigitsOfMagnitude(_)
DigitsOfMagnitude(n) ==
    LET last == IF n % 10 = 0 THEN 0 ELSE 10 - (n % 10)
        rest == IF n % 10 = 0 THEN n \div 10 ELSE (n \div 10) + 1
    IN  IF rest = 0 THEN <<Digit(last)>>
        ELSE Append(DigitsOfMagnitude(rest), Digit(last))

\* "{}" of an i32: a minus sign for a negative number, then its digits
FormatI32(n) == IF n >= 0 THEN DigitsOf(n) ELSE <<"-">> \o DigitsOfMagnitude(n)

\* line 163
LessThan1Text ==
    <<"T", "h", "e", " ", "v", "a", "l", "u", "e", " ", "p", "r", "o", "v",
      "i", "d", "e", "d", " ", "w", "a", "s", " ", "l", "e", "s", "s", " ",
      "t", "h", "a", "n", " ", "1", ",", " ", "g", "o", "t", ":", " ">>

\* line 165
GreaterThan100Text ==
    <<"T", "h", "e", " ", "v", "a", "l", "u", "e", " ", "p", "r", "o", "v",
      "i", "d", "e", "d", " ", "w", "a", "s", " ", "g", "r", "e", "a", "t",
      "e", "r", " ", "t", "h", "a", "n", " ", "1", "0", "0", ",", " ", "g",
      "o", "t", ":", " ">>

\* chapter_9/src/when_to_panic.rs, line 31
Between1And100Text ==
    <<"G", "u", "e", "s", "s", " ", "v", "a", "l", "u", "e", " ", "m", "u",
      "s", "t", " ", "b", "e", " ", "b", "e", "t", "w", "e", "e", "n", " ",
      "1", " ", "a", "n", "d", " ", "1", "0", "0", ",", " ", "g", "o", "t",
      " ">>

\* the outcome of a constructor: the instance, or the panic's message
Instance(v) == [ok |-> TRUE, val |-> [value |-> v]]
Panic(text, v) == [ok |-> FALSE, val |-> text \o FormatI32(v)]

\* Guess::new, chapter 11
\* faulty variant: the two panic messages exchanged
Guess_new_swapped(v) ==
    IF v < 1 THEN Panic(GreaterThan100Text, v)
    ELSE IF v > 100 THEN Panic(LessThan1Text, v)
    ELSE Instance(v)

\* faulty variant: no upper bound tested
Guess_new_unbounded(v) ==
    IF v < 1 THEN Panic(LessThan1Text, v)
    ELSE Instance(v)

Guess_new(v) ==
    IF v < 1 THEN Panic(LessThan1Text, v)
    ELSE IF v > 100 THEN Panic(GreaterThan100Text, v)
    ELSE Instance(v)

\* _Guess::_new, chapter 9
Guess9_new(v) ==
    IF v < 1 \/ v > 100 THEN Panic(Between1And100Text, v)
    ELSE Instance(v)

\* _Guess::_value
Guess9_value(g) == g.value

InitGuess ==
    /\ guesses11 = <<>>
    /\ guesses9 = <<>>
    /\ last_call = None
    /\ guess_panic = None
    /\ got_value = None

IdleGuess ==
    /\ guesses11 = <<>>
    /\ guesses9 = <<>>
    /\ last_call = None
    /\ guess_panic = None
    /\ got_value = None

\* a call Guess::new(v): the program goes on with the instance, or panics
GuessNew(v) ==
    /\ guess_panic = None
    /\ Guess_new(v).ok => Len(guesses11) < MaxGuesses
    /\ last_call' = Some([type |-> "Guess", arg |-> v])
    /\ IF Guess_new(v).ok
       THEN guesses11' = Append(guesses11, Guess_new(v).val)
            /\ UNCHANGED guess_panic
       ELSE guess_panic' = Some(Guess_new(v).val) /\ UNCHANGED guesses11
    /\ UNCHANGED <<guesses9, got_value>>
    /\ UNCHANGED notGuess

\* a call _Guess::_new(v)
Guess9New(v) ==
    /\ guess_panic = None
    /\ Guess9_new(v).ok => Len(guesses9) < MaxGuesses
    /\ last_call' = Some([type |-> "_Guess", arg |-> v])
    /\ IF Guess9_new(v).ok
       THEN guesses9' = Append(guesses9, Guess9_new(v).val)
            /\ UNCHANGED guess_panic
       ELSE guess_panic' = Some(Guess9_new(v).val) /\ UNCHANGED guesses9
    /\ UNCHANGED <<guesses11, got_value>>
    /\ UNCHANGED notGuess

\* a call of the getter on a live _Guess
Guess9Value(i) ==
    /\ guess_panic = None
    /\ got_value' = Some(Guess9_value(guesses9[i]))
    /\ got_value' # got_value
    /\ UNCHANGED <<guesses11, guesses9, last_call, guess_panic>>
    /\ UNCHANGED notGuess

NextGuess ==
    \/ \E v \in GuessArgs : GuessNew(v)
    \/ \E v \in GuessArgs : Guess9New(v)
    \/ \E i \in DOMAIN guesses9 : Guess9Value(i)

(***************************************************************************)
(* chapter_11/src/lib.rs and chapter_5/src/method_syntax.rs: Rectangle     *)
(***************************************************************************)

\* the widths and heights are 0..MaxDim and those of the tests (8, 7, 5, 1);
\* can_hold only compares the u32 fields, so their width plays no part
MaxDim == 5

Dims == (0..MaxDim) \cup {7, 8}

Rectangles == {Rect(w, h) : w \in Dims, h \in Dims}

\* Rectangle::can_hold, chapter 11
\* faulty variant: equal sides accepted
can_hold_or_equal(self, other) ==
    self.width >= other.width /\ self.height >= other.height

can_hold(self, other) ==
    self.width > other.width /\ self.height > other.height

\* Rectangle::can_hold, chapter 5
\* faulty variant: width compared with height
can_hold_ch5_crossed(self, rect) ==
    self.width > rect.height /\ self.height > rect.width

can_hold_ch5(self, rect) ==
    self.width > rect.width /\ self.height > rect.height

InitRect ==
    /\ rect_self \in Rectangles
    /\ rect_other \in Rectangles
    /\ holds11 = None
    /\ holds11_rev = None
    /\ holds5 = None

IdleRect ==
    /\ rect_self = Rect(0, 0)
    /\ rect_other = Rect(0, 0)
    /\ holds11 = None
    /\ holds11_rev = None
    /\ holds5 = None

\* rect_self.can_hold(&rect_other), chapter 11
CanHold ==
    /\ holds11 = None
    /\ holds11' = Some(can_hold(rect_self, rect_other))
    /\ UNCHANGED <<rect_self, rect_other, holds11_rev, holds5>>
    /\ UNCHANGED notRect

\* rect_other.can_hold(&rect_self), chapter 11
CanHoldReversed ==
    /\ holds11_rev = None
    /\ holds11_rev' = Some(can_hold(rect_other, rect_self))
    /\ UNCHANGED <<rect_self, rect_other, holds11, holds5>>
    /\ UNCHANGED notRect

\* rect_self.can_hold(&rect_other), chapter 5
CanHoldCh5 ==
    /\ holds5 = None
    /\ holds5' = Some(can_hold_ch5(rect_self, rect_other))
    /\ UNCHANGED <<rect_self, rect_other, holds11, holds11_rev>>
    /\ UNCHANGED notRect

NextRect ==
    \/ CanHold
    \/ CanHoldReversed
    \/ CanHoldCh5

(***************************************************************************)
(* chapter_11/src/lib.rs: add_two and greeting                             *)
(***************************************************************************)

\* the arguments passed to add_two: that of the test, small ones, and the
\* ends of the i32 range
AddArgs ==
    {I32Min, -3, -2, -1, 0, 1, 2, 40, I32Max - 2, I32Max - 1, I32Max}

\* the names passed to greeting, "John" being that of the test
Names ==
    {<<"J", "o", "h", "n">>, <<>>, <<"e", "l", "l">>, <<"J", "o">>,
     <<"H", "e", "l", "l", "o">>, <<"H", "e", "l", "l", "o", "!">>}

\* line 145
HelloText ==
    <<"H", "e", "l", "l", "o">>

\* add_two: a + 2 in i32; Some(the sum), or None where the addition panics
\* ("attempt to add with overflow", in a build with overflow checks)
\* faulty variant: 1 added
add_one(a, checks) ==
    IF AddOverflows(a, 1) /\ checks THEN None ELSE Some(WrappingAdd(a, 1))

add_two(a, checks) ==
    IF AddOverflows(a, 2) /\ checks THEN None ELSE Some(WrappingAdd(a, 2))

\* greeting: String::from("Hello"), whatever the name
greeting(name) == HelloText

\* the build either checks arithmetic overflow (debug, as `cargo test` builds)
\* or does not (release)
InitLib ==
    /\ add_call = None
    /\ lib_checks \in BOOLEAN
    /\ greet_call = None

IdleLib ==
    /\ add_call = None
    /\ lib_checks = FALSE
    /\ greet_call = None

\* a call add_two(a)
AddTwo(a) ==
    /\ add_call' = Some([arg |-> a, ret |-> add_two(a, lib_checks)])
    /\ add_call' # add_call
    /\ UNCHANGED <<lib_checks, greet_call>>
    /\ UNCHANGED notLib

\* a call greeting(name)
Greeting(name) ==
    /\ greet_call' = Some([name |-> name, ret |-> greeting(name)])
    /\ greet_call' # greet_call
    /\ UNCHANGED <<lib_checks, add_call>>
    /\ UNCHANGED notLib

NextLib ==
    \/ \E a \in AddArgs : AddTwo(a)
    \/ \E name \in Names : Greeting(name)

(***************************************************************************)
(* chapter_13/src/iterators.rs: iterator_demonstration                     *)
(***************************************************************************)

\* the calls of next() made after the one that first returned None
MaxExtraNext == 1

\* lines 138-140: v1 and v1.iter(), no next() called yet
InitDemo ==
    /\ v1 \in Vectors
    /\ v1_iter = 0
    /\ total = 0
    /\ sum_status = "idle"
    /\ visited = <<>>
    /\ overflow_checks = FALSE
    /\ returned = <<>>

IdleDemo == returned = <<>>

\* lines 144-147: one call v1_iter.next(); the iterator moves on when it
\* returns an element
NextCall ==
    /\ Len(returned) < Len(v1) + 1 + MaxExtraNext
    /\ returned' = Append(returned, next(v1, v1_iter))
    /\ v1_iter' = IF next(v1, v1_iter) # None THEN v1_iter + 1 ELSE v1_iter
    /\ UNCHANGED <<v1, total, sum_status, visited, overflow_checks>>
    /\ UNCHANGED notIterDemo

NextDemo == NextCall

(***************************************************************************)
(* chapter_13/src/iterators.rs: shoes_in_size                              *)
(***************************************************************************)

\* longest vector of shoes filtered
MaxShoes == 3

Shoe(size, style) == [size |-> size, style |-> style]

\* the shoes of run(), lines 104-117, and two more of other sizes
ShoeSet ==
    {Shoe(10, "sneaker"), Shoe(13, "sandal"), Shoe(10, "boot"),
     Shoe(9, "clog")}

ShoeVectors == UNION {[1..n -> ShoeSet] : n \in 0..MaxShoes}

ShoeSizes == {9, 10, 13, 11}

\* the closure of filter: |s| s.size == shoe_size
\* faulty variant: shoes of a larger size accepted too
size_at_least(s, size) == s.size >= size

size_matches(s, size) == s.size = size

\* the call shoes_in_size(shoes, shoe_size): the vector is moved into
\* into_iter(), nothing is collected yet
InitShoes ==
    /\ shoes \in ShoeVectors
    /\ shoe_size \in ShoeSizes
    /\ shoes_iter = 0
    /\ collected = <<>>
    /\ in_my_size = None

IdleShoes ==
    /\ shoes = <<>>
    /\ shoe_size = 0
    /\ shoes_iter = 0
    /\ collected = <<>>
    /\ in_my_size = None

\* line 101: collect() takes the next shoe from filter(), which passes on
\* the shoes its closure accepts and discards the others
FilterStep ==
    /\ in_my_size = None
    /\ shoes_iter < Len(shoes)
    /\ shoes_iter' = shoes_iter + 1
    /\ collected' = IF size_matches(shoes[shoes_iter + 1], shoe_size)
                    THEN Append(collected, shoes[shoes_iter + 1])
                    ELSE collected
    /\ UNCHANGED <<shoes, shoe_size, in_my_size>>
    /\ UNCHANGED notShoes

\* line 101: the iterator is exhausted and collect() returns the vector
Collect ==
    /\ in_my_size = None
    /\ shoes_iter = Len(shoes)
    /\ in_my_size' = Some(collected)
    /\ UNCHANGED <<shoes, shoe_size, shoes_iter, collected>>
    /\ UNCHANGED notShoes

NextShoes ==
    \/ FilterStep
    \/ Collect

(***************************************************************************)
(* chapter_15/src/drop_trait.rs: run                                       *)
(***************************************************************************)

\* the data of the three CustomSmartPointers: those of lines 40, 43 and 64
DropData == {"my stuff", "other stuff", "More stuff"}

CustomSmartPointer(var, data) == [var |-> var, data |-> data]

\* Drop::drop for CustomSmartPointer, lines 34-36: the line it prints
DropLine(data) == Line("Dropping CustomSmartPointer with data ", data)

CreatedLine == Line("CustomSmartPointers created.", <<>>)
CreatedAgainLine == Line("CustomSmartPointer created... again.", <<>>)
DroppedEarlyLine ==
    Line("CustomSmartPointer dropped before the end of run().", <<>>)

\* s without its i-th element
RemoveAt(s, i) == SubSeq(s, 1, i - 1) \o SubSeq(s, i + 1, Len(s))

\* the position in `live` of the variable dropped next at the end of the
\* scope: the one declared last
\* faulty variant: the one declared first
ScopeDropsFirst(live) == 1

ScopeDropsNext(live) == Len(live)

InitDrop ==
    /\ dpc = "create_c"
    /\ owned = <<>>
    /\ drop_out = <<>>
    /\ dropped = <<>>
    /\ data_c \in DropData
    /\ data_d \in DropData
    /\ data_e \in DropData

IdleDrop ==
    /\ dpc = "idle"
    /\ owned = <<>>
    /\ drop_out = <<>>
    /\ dropped = <<>>
    /\ data_c = ""
    /\ data_d = ""
    /\ data_e = ""

\* lines 39-41
CreateC ==
    /\ dpc = "create_c"
    /\ owned' = Append(owned, CustomSmartPointer("_c", data_c))
    /\ dpc' = "create_d"
    /\ UNCHANGED <<drop_out, dropped, data_c, data_d, data_e>>
    /\ UNCHANGED notDrop

\* lines 42-44
CreateD ==
    /\ dpc = "create_d"
    /\ owned' = Append(owned, CustomSmartPointer("_d", data_d))
    /\ dpc' = "print_created"
    /\ UNCHANGED <<drop_out, dropped, data_c, data_d, data_e>>
    /\ UNCHANGED notDrop

\* line 45
PrintCreated ==
    /\ dpc = "print_created"
    /\ drop_out' = Append(drop_out, CreatedLine)
    /\ dpc' = "create_e"
    /\ UNCHANGED <<owned, dropped, data_c, data_d, data_e>>
    /\ UNCHANGED notDrop

\* lines 63-65
CreateE ==
    /\ dpc = "create_e"
    /\ owned' = Append(owned, CustomSmartPointer("e", data_e))
    /\ dpc' = "print_again"
    /\ UNCHANGED <<drop_out, dropped, data_c, data_d, data_e>>
    /\ UNCHANGED notDrop

\* line 66
PrintAgain ==
    /\ dpc = "print_again"
    /\ drop_out' = Append(drop_out, CreatedAgainLine)
    /\ dpc' = "drop_e"
    /\ UNCHANGED <<owned, dropped, data_c, data_d, data_e>>
    /\ UNCHANGED notDrop

\* line 67: drop(e) takes e out of run() and drops it
DropE ==
    /\ dpc = "drop_e"
    /\ \E i \in DOMAIN owned :
          /\ owned[i].var = "e"
          /\ drop_out' = Append(drop_out, DropLine(owned[i].data))
          /\ owned' = RemoveAt(owned, i)
    /\ dropped' = Append(dropped, "e")
    /\ dpc' = "print_dropped"
    /\ UNCHANGED <<data_c, data_d, data_e>>
    /\ UNCHANGED notDrop

\* line 68
PrintDropped ==
    /\ dpc = "print_dropped"
    /\ drop_out' = Append(drop_out, DroppedEarlyLine)
    /\ dpc' = "scope_end"
    /\ UNCHANGED <<owned, dropped, data_c, data_d, data_e>>
    /\ UNCHANGED notDrop

\* line 69: the end of run() drops one of the values run() still owns
ScopeEndDrop ==
    /\ dpc = "scope_end"
    /\ owned # <<>>
    /\ LET i == ScopeDropsNext(owned)
       IN  /\ drop_out' = Append(drop_out, DropLine(owned[i].data))
           /\ dropped' = Append(dropped, owned[i].var)
           /\ owned' = RemoveAt(owned, i)
    /\ UNCHANGED <<dpc, data_c, data_d, data_e>>
    /\ UNCHANGED notDrop

\* line 69: nothing is left to drop and run() returns
Return ==
    /\ dpc = "scope_end"
    /\ owned = <<>>
    /\ dpc' = "done"
    /\ UNCHANGED <<owned, drop_out, dropped, data_c, data_d, data_e>>
    /\ UNCHANGED notDrop

NextDrop ==
    \/ CreateC
    \/ CreateD
    \/ PrintCreated
    \/ CreateE
    \/ PrintAgain
    \/ DropE
    \/ PrintDropped
    \/ ScopeEndDrop
    \/ Return

(***************************************************************************)
(* Specifications                                                          *)
(***************************************************************************)

InitSpecTracker == InitTracker /\ IdleClosures /\ IdleIter /\ IdleFile /\ IdleGuess /\ IdleRect
    /\ IdleLib
    /\ IdleDemo
    /\ IdleShoes
    /\ IdleDrop

SpecTracker == InitSpecTracker /\ [][NextTracker]_vars

InitSpecClosures == IdleTracker /\ InitClosures /\ IdleIter /\ IdleFile /\ IdleGuess /\ IdleRect
    /\ IdleLib
    /\ IdleDemo
    /\ IdleShoes
    /\ IdleDrop

SpecClosures == InitSpecClosures /\ [][NextClosures]_vars

InitSpecIter == IdleTracker /\ IdleClosures /\ InitIter /\ IdleFile /\ IdleGuess /\ IdleRect
    /\ IdleLib
    /\ IdleDemo
    /\ IdleShoes
    /\ IdleDrop

SpecIter == InitSpecIter /\ [][NextIter]_vars

InitSpecFile == IdleTracker /\ IdleClosures /\ IdleIter /\ InitFile /\ IdleGuess /\ IdleRect
    /\ IdleLib
    /\ IdleDemo
    /\ IdleShoes
    /\ IdleDrop

SpecFile == InitSpecFile /\ [][NextFile]_vars

InitSpecGuess ==
    IdleTracker /\ IdleClosures /\ IdleIter /\ IdleFile /\ InitGuess /\ IdleRect
    /\ IdleLib
    /\ IdleDemo
    /\ IdleShoes
    /\ IdleDrop

SpecGuess == InitSpecGuess /\ [][NextGuess]_vars

InitSpecRect ==
    IdleTracker /\ IdleClosures /\ IdleIter /\ IdleFile /\ IdleGuess /\ InitRect
    /\ IdleLib
    /\ IdleDemo
    /\ IdleShoes
    /\ IdleDrop

SpecRect == InitSpecRect /\ [][NextRect]_vars

InitSpecLib ==
    IdleTracker /\ IdleClosures /\ IdleIter /\ IdleFile /\ IdleGuess /\ IdleRect
    /\ InitLib
    /\ IdleDemo
    /\ IdleShoes
    /\ IdleDrop

SpecLib == InitSpecLib /\ [][NextLib]_vars

InitSpecDemo ==
    IdleTracker /\ IdleClosures /\ IdleFile /\ IdleGuess /\ IdleRect
    /\ IdleLib /\ InitDemo
    /\ IdleShoes
    /\ IdleDrop

SpecDemo == InitSpecDemo /\ [][NextDemo]_vars

InitSpecShoes ==
    IdleTracker /\ IdleClosures /\ IdleIter /\ IdleFile /\ IdleGuess /\ IdleRect
    /\ IdleLib /\ IdleDemo /\ InitShoes
    /\ IdleDrop

SpecShoes == InitSpecShoes /\ [][NextShoes]_vars

InitSpecDrop ==
    IdleTracker /\ IdleClosures /\ IdleIter /\ IdleFile /\ IdleGuess /\ IdleRect
    /\ IdleLib /\ IdleDemo /\ IdleShoes /\ InitDrop

SpecDrop == InitSpecDrop /\ [][NextDrop]_vars

(***************************************************************************)
(* Properties                                                              *)
(***************************************************************************)

InStock(c) == Cardinality({i \in DOMAIN shirts : shirts[i] = c})

\* what giveaway has to return for the preference pref
GiveawayExpected(pref, got) ==
    IF pref # None
    THEN got = pref
    ELSE /\ got \in {Some("Red"), Some("Blue")}
         /\ got = Some("Red") <=> InStock("Red") > InStock("Blue")
         /\ \A c \in ShirtColor : InStock(got[1]) >= InStock(c)

\* C2: giveaway(Some(c)) returns c for every inventory, giveaway(None) returns
\* what most_stocked returns, a colour no other colour has more shirts than
\* (Red exactly when there are more Red shirts than Blue ones), and no step
\* changes the inventory.
C2_Giveaway ==
    /\ [](/\ giveaway1 # None => GiveawayExpected(user_pref1, giveaway1)
          /\ giveaway2 # None => GiveawayExpected(user_pref2, giveaway2))
    /\ [][shirts' = shirts]_vars

C2_Witness ==
    /\ pc = "done"
    /\ user_pref1 = Some("Red")
    /\ giveaway1 = Some("Red")
    /\ user_pref2 = None
    /\ giveaway2 = Some("Blue")
    /\ shirts = <<"Blue", "Red", "Blue">>

\* the position in out of the first line equal to l, 0 if there is none
FirstIndex(l) ==
    IF \E i \in DOMAIN out : out[i] = l
    THEN CHOOSE i \in DOMAIN out : out[i] = l /\ \A j \in 1..(i - 1) : out[j] # l
    ELSE 0

\* the position in out of the last line equal to l, 0 if there is none
LastIndex(l) ==
    IF \E i \in DOMAIN out : out[i] = l
    THEN CHOOSE i \in DOMAIN out : out[i] = l /\ \A j \in (i + 1)..Len(out) : out[j] # l
    ELSE 0

AfterJoin == pc \in {"sort", "print_sorted", "done"}

\* C4: at most one thread is ever spawned; it is spawned only after line 159
\* printed "Before defining the closure" (the second such line, after the
\* lines of list2); and main is past .join().unwrap() (sorting, printing the
\* sorted list) only when the thread's closure has finished and printed its
\* line.
C4_ThreadJoinedAtOnce ==
    /\ Len(threads) <= 1
    /\ threads # <<>> =>
          /\ FirstIndex(AfterCallingLine) > 0
          /\ LastIndex(BeforeDefiningLine) > FirstIndex(AfterCallingLine)
    /\ (AfterJoin \/ list # <<>>) =>
          /\ Len(threads) = 1
          /\ threads[1].state = "finished"
          /\ FirstIndex(FromThreadLine) > LastIndex(BeforeDefiningLine)
    /\ FirstIndex(Line("", sort_by_key(RectList))) > 0 =>
          /\ FirstIndex(FromThreadLine) > 0
          /\ FirstIndex(FromThreadLine) < FirstIndex(Line("", sort_by_key(RectList)))

C4_Witness ==
    /\ pc = "done"
    /\ joined = 1
    /\ out[Len(out)] = Line("", <<Rect(3, 5), Rect(7, 12), Rect(10, 1)>>)
    /\ out[Len(out) - 1] = FromThreadLine

\* the local variables of run() that the code after line 126 names
RunVariables ==
    {"store", "user_pref1", "giveaway1", "user_pref2", "giveaway2", "list",
     "only_borrows", "list2", "borrows_mutably", "list3", "handle"}

\* C5: list3 is moved into the spawned closure (run() keeps no usable list3),
\* main never accesses list3 once the thread is spawned, the thread accesses
\* no variable of run() but its own list3, and nothing is accessed by the
\* thread and by main while the thread is running.
C5_NoSharedState ==
    /\ threads # <<>> =>
          /\ list3 = Moved
          /\ \A i \in DOMAIN threads : threads[i].env = <<1, 2, 3>>
    /\ "list3" \notin main_acc
    /\ thread_acc \cap RunVariables \subseteq {"list3"}
    /\ main_live_acc \cap thread_acc = {}

C5_Witness ==
    /\ pc = "done"
    /\ thread_acc = {"list3", "stdout"}
    /\ {"handle", "list", "stdout"} \subseteq main_acc
    /\ list3 = Moved

\* the arithmetic total of the first k elements of v, kept exact as the pair
\* [q, r] with total = 8 * q + r and 0 <= r < 8 (the total itself can exceed
\* what a 32-bit integer holds)
RECURSIVE SumEighths(_, _)
SumEighths(v, k) == IF k = 0 THEN 0 ELSE (v[k] \div 8) + SumEighths(v, k - 1)

RECURSIVE SumRests(_, _)
SumRests(v, k) == IF k = 0 THEN 0 ELSE (v[k] % 8) + SumRests(v, k - 1)

ArithTotal(v, k) ==
    [q |-> SumEighths(v, k) + (SumRests(v, k) \div 8), r |-> SumRests(v, k) % 8]

\* t is the arithmetic total of the first k elements of v
IsArithTotal(t, v, k) == [q |-> t \div 8, r |-> t % 8] = ArithTotal(v, k)

\* the arithmetic total of the first k elements of v is an i32
FitsI32(v, k) ==
    /\ ArithTotal(v, k).q >= I32Min \div 8
    /\ ArithTotal(v, k).q <= I32Max \div 8

\* C3 as stated: sum() returns, and returns the arithmetic total of all
\* elements of the vector, each counted exactly once.
C3_SumIsArithmeticTotal ==
    /\ sum_status # "panicked"
    /\ sum_status = "done" =>
          /\ IsArithTotal(total, v1, Len(v1))
          /\ visited = [i \in 1..Len(v1) |-> i]

\* C3 amended: when every running total (the sum of each prefix of the vector)
\* is an i32, sum() returns the arithmetic total of all elements, each counted
\* exactly once in index order; sum() panics only in a build with overflow
\* checks, at an element whose running total is no i32.
C3_SumWithinI32 ==
    /\ (\A k \in 1..v1_iter : FitsI32(v1, k)) =>
          /\ sum_status \in {"iterating", "done"}
          /\ IsArithTotal(total, v1, v1_iter)
    /\ sum_status = "done" => visited = [i \in 1..Len(v1) |-> i]
    /\ sum_status = "panicked" =>
          /\ overflow_checks
          /\ ~FitsI32(v1, v1_iter)
          /\ \A k \in 1..(v1_iter - 1) : FitsI32(v1, k)

C3_Witness ==
    /\ sum_status = "done"
    /\ v1 = <<1, 2, 3>>
    /\ total = 6
    /\ visited = <<1, 2, 3>>

FileFinished == fpc \in {"print", "done", "panicked"}

\* C6: hello.txt is opened first; File::create is attempted if and only if
\* the open failed with NotFound; an open failure of another kind panics with
\* "Problem opening the file" and no create; a failed create panics with
\* "Problem creating the file"; after a successful open _run neither creates
\* nor truncates the file.
C6_CreateOnlyOnNotFound ==
    /\ syscalls # <<>> => syscalls[1] = "open"
    /\ (\E i \in DOMAIN syscalls : syscalls[i] = "create") =>
          /\ syscalls = <<"open", "create">>
          /\ greeting_file_result = Some(Err("NotFound"))
    /\ (FileFinished /\ greeting_file_result = Some(Err("NotFound"))) =>
          syscalls = <<"open", "create">>
    /\ (/\ greeting_file_result # None
        /\ ~greeting_file_result[1].ok
        /\ greeting_file_result[1].val # "NotFound"
        /\ fpc # "match") =>
          /\ fpc = "panicked"
          /\ panic_msg # None
          /\ panic_msg[1][1] = "Problem opening the file: "
          /\ syscalls = <<"open">>
          /\ fs_writes = <<>>
    /\ (create_result # None /\ ~create_result[1].ok) =>
          /\ fpc = "panicked"
          /\ panic_msg # None
          /\ panic_msg[1][1] = "Problem creating the file: "
          /\ fs_writes = <<>>
    /\ (greeting_file_result # None /\ greeting_file_result[1].ok) =>
          /\ syscalls = <<"open">>
          /\ fs_writes = <<>>
          /\ panic_msg = None
    /\ fs_writes # <<>> => create_result = Some(Ok("file"))

C6_Witness ==
    /\ fpc = "done"
    /\ greeting_file_result = Some(Err("NotFound"))
    /\ syscalls = <<"open", "create">>
    /\ fs_writes = <<"created">>
    /\ hello_txt = "empty"

\* needle occurs in hay as a substring
Contains(hay, needle) ==
    \E i \in 0..(Len(hay) - Len(needle)) :
        SubSeq(hay, i + 1, i + Len(needle)) = needle

\* the expected substring of tests::greater_than_100, line 96
GreaterThan100 ==
    <<"g", "r", "e", "a", "t", "e", "r", " ", "t", "h", "a", "n", " ", "1",
      "0", "0">>

LessThan1 ==
    <<"l", "e", "s", "s", " ", "t", "h", "a", "n", " ", "1">>

LastCallIs(type) == last_call # None /\ last_call[1].type = type

\* C7: Guess::new(value) panics for every value > 100 with a message that
\* contains "greater than 100", and for every value < 1 with a message that
\* contains "less than 1" and does not contain "greater than 100".
C7_PanicMessages ==
    LastCallIs("Guess") =>
        /\ last_call[1].arg > 100 =>
              /\ guess_panic # None
              /\ Contains(guess_panic[1], GreaterThan100)
        /\ last_call[1].arg < 1 =>
              /\ guess_panic # None
              /\ Contains(guess_panic[1], LessThan1)
              /\ ~Contains(guess_panic[1], GreaterThan100)

C7_Witness ==
    /\ LastCallIs("Guess")
    /\ last_call[1].arg = 200
    /\ guess_panic # None
    /\ Contains(guess_panic[1], GreaterThan100)
    /\ guess_panic[1][Len(guess_panic[1])] = "0"

\* C8: every Guess and _Guess instance holds a value from 1 to 100; a
\* constructor returns an instance (holding its argument) exactly when
\* 1 <= value <= 100 and panics otherwise; the value of an instance never
\* changes once it is constructed.
C8_GuessInRange ==
    /\ [](/\ \A i \in DOMAIN guesses11 : guesses11[i].value \in 1..100
          /\ \A i \in DOMAIN guesses9 : guesses9[i].value \in 1..100
          /\ last_call # None =>
                /\ guess_panic = None <=> last_call[1].arg \in 1..100
                /\ (guess_panic = None /\ LastCallIs("Guess")) =>
                      guesses11[Len(guesses11)].value = last_call[1].arg
                /\ (guess_panic = None /\ LastCallIs("_Guess")) =>
                      guesses9[Len(guesses9)].value = last_call[1].arg
          /\ got_value # None =>
                \E i \in DOMAIN guesses9 : got_value[1] = guesses9[i].value)
    /\ [][/\ \A i \in DOMAIN guesses11 :
                i \in DOMAIN guesses11' /\ guesses11'[i] = guesses11[i]
          /\ \A i \in DOMAIN guesses9 :
                i \in DOMAIN guesses9' /\ guesses9'[i] = guesses9[i]]_vars

C8_Witness ==
    /\ Len(guesses11) = 1
    /\ guesses11[1].value = 100
    /\ Len(guesses9) = 1
    /\ guesses9[1].value = 1
    /\ got_value = Some(1)
    /\ guess_panic # None
    /\ LastCallIs("_Guess")
    /\ last_call[1].arg = I32Min

LargerInBoth(a, b) == a.width > b.width /\ a.height > b.height

\* C9: can_hold returns true whenever self is larger than other in both
\* dimensions (8x7 holds 5x1), in chapter 11 and in chapter 5, and the two
\* implementations return the same on every pair of rectangles.
C9_LargerCanHoldSmaller ==
    /\ (holds11 # None /\ LargerInBoth(rect_self, rect_other)) =>
          holds11 = Some(TRUE)
    /\ (holds5 # None /\ LargerInBoth(rect_self, rect_other)) =>
          holds5 = Some(TRUE)
    /\ (holds11 # None /\ holds5 # None) => holds11 = holds5

C9_Witness ==
    /\ rect_self = Rect(8, 7)
    /\ rect_other = Rect(5, 1)
    /\ holds11 = Some(TRUE)
    /\ holds5 = Some(TRUE)

\* C10: if a.can_hold(&b) is true then b.can_hold(&a) is false; a rectangle
\* holds no rectangle of equal width or of equal height, itself included.
C10_SmallerCannotHoldLarger ==
    /\ (holds11 = Some(TRUE) /\ holds11_rev # None) => holds11_rev = Some(FALSE)
    /\ (holds11_rev = Some(TRUE) /\ holds11 # None) => holds11 = Some(FALSE)
    /\ (\/ rect_self.width = rect_other.width
        \/ rect_self.height = rect_other.height) =>
          /\ holds11 # Some(TRUE)
          /\ holds11_rev # Some(TRUE)

C10_Witness ==
    /\ rect_self = Rect(5, 1)
    /\ rect_other = Rect(8, 7)
    /\ holds11 = Some(FALSE)
    /\ holds11_rev = Some(TRUE)

\* C11 as stated: add_two(a) returns a + 2 for every i32 a, those at the top
\* of the range included.
C11_AddsTwoEverywhere ==
    add_call # None =>
        /\ add_call[1].ret # None
        /\ add_call[1].ret[1] > add_call[1].arg
        /\ add_call[1].ret[1] - add_call[1].arg = 2

\* C11 amended: add_two(a) returns a + 2 for every a <= i32::MAX - 2; for
\* a = i32::MAX - 1 and a = i32::MAX the addition overflows: add_two panics
\* in a build with overflow checks and returns a + 2 - 2^32 (i32::MIN,
\* i32::MIN + 1) without them.
C11_AddsTwoBelowTop ==
    add_call # None =>
        LET a == add_call[1].arg
            ret == add_call[1].ret
        IN  /\ a <= I32Max - 2 => (ret # None /\ ret[1] > a /\ ret[1] - a = 2)
            /\ (a > I32Max - 2 /\ lib_checks) => ret = None
            /\ (a > I32Max - 2 /\ ~lib_checks) =>
                  ret = Some(I32Min + (a - (I32Max - 1)))

C11_Witness ==
    /\ add_call = Some([arg |-> 2, ret |-> Some(4)])
    /\ lib_checks

\* C12: greeting(name) returns a string that contains name, for every name.
C12_GreetingContainsName ==
    greet_call # None => Contains(greet_call[1].ret, greet_call[1].name)

\* C13: on the iterator of a vector of n elements the k-th call of next()
\* returns Some(&v[k-1]) for k <= n, in index order and each element once;
\* the (n+1)-th call (and every later one) returns None; the vector is
\* unchanged.
C13_NextInOrder ==
    /\ [](\A k \in DOMAIN returned :
             /\ k <= Len(v1) => returned[k] = Some(v1[k])
             /\ k > Len(v1) => returned[k] = None)
    /\ [][v1' = v1]_vars

C13_Witness ==
    /\ v1 = <<1, 2, 3>>
    /\ returned = <<Some(1), Some(2), Some(3), None>>

InMySize(s) == s.size = shoe_size

\* the indices of the shoes of the input that have the size asked for
Fitting == {i \in DOMAIN shoes : shoes[i].size = shoe_size}

\* C14: shoes_in_size returns exactly the shoes of the input whose size is
\* shoe_size, each once and in their original relative order, and no shoe
\* of another size.
C14_ShoesInSize ==
    in_my_size # None =>
        LET result == in_my_size[1]
        IN  /\ result = SelectSeq(shoes, InMySize)
            /\ Len(result) = Cardinality(Fitting)
            /\ \A k \in DOMAIN result : result[k].size = shoe_size
            /\ \E f \in [DOMAIN result -> Fitting] :
                  /\ \A j, k \in DOMAIN result : j < k => f[j] < f[k]
                  /\ \A k \in DOMAIN result : result[k] = shoes[f[k]]

C14_Witness ==
    /\ shoes = <<Shoe(10, "sneaker"), Shoe(13, "sandal"), Shoe(10, "boot")>>
    /\ shoe_size = 10
    /\ in_my_size = Some(<<Shoe(10, "sneaker"), Shoe(10, "boot")>>)

\* the lines run() prints other than those of the drops at its end
OtherLines(e) ==
    <<CreatedLine, CreatedAgainLine, DropLine(e), DroppedEarlyLine>>

\* C15: the values run() still owns at its end are dropped in reverse order
\* of creation: the drop line of _d is printed before that of _c, and both
\* after every other line of run().
C15_DropsInReverseOrder ==
    /\ \A i \in DOMAIN dropped : dropped[i] = <<"e", "_d", "_c">>[i]
    /\ Len(dropped) >= 2 =>
          /\ SubSeq(drop_out, 1, 4) = OtherLines(data_e)
          /\ drop_out[5] = DropLine(data_d)
    /\ Len(dropped) = 3 =>
          /\ drop_out[6] = DropLine(data_c)
          /\ Len(drop_out) = 6
    /\ dpc = "done" => (dropped = <<"e", "_d", "_c">> /\ owned = <<>>)

C15_Witness ==
    /\ dpc = "done"
    /\ drop_out = <<CreatedLine, CreatedAgainLine, DropLine("More stuff"),
                    DroppedEarlyLine, DropLine("other stuff"),
                    DropLine("my stuff")>>

====
